---- MODULE Spec2Model ----
(***************************************************************************)
(* A model of simian-forge's production pipeline and counter ledgers.      *)
(*                                                                         *)
(*  - Spec       : BaseSimulator's two-phase run (backfill, then realtime) *)
(*                 through BackfillStream / RealTimeStream,                *)
(*                 MetricsTransformStream and the bulk helper.             *)
(*  - SpecLedger : the counter ledgers of the host and the weather-station *)
(*                 metrics generators (incrementCounter).                  *)
(*  - SpecGen    : MetricsGenerator.generateMetrics as a stateful object.  *)
(*  - SpecCpu, SpecRender, SpecConfig : generateCpuMetrics, the two host   *)
(*                 formatters, the host and station generators.            *)
(*  - SpecCli    : main() of index.ts followed by the run.                 *)
(*  - SpecBackfill, SpecRealTime : BackfillStream and RealTimeStream on    *)
(*                 their own, read by a consumer.                          *)
(*  - SpecWeather: the counter fields of WeatherMetricsGenerator.          *)
(*  - SpecLogger : SimianLogger's buffer, flushes and bulk requests.       *)
(*                                                                         *)
(* Wall-clock time and timestamps are in milliseconds.                     *)
(***************************************************************************)
EXTENDS Integers, Sequences, FiniteSets, TLC

VARIABLES
  options,      \* BaseSimulatorOptions: interval, backfill, count
  intervalMs,   \* BaseSimulator.intervalMs
  backfillStart,\* BaseSimulator.backfillStart
  now,          \* the wall clock (what new Date() returns)
  advances,     \* how many times the clock has advanced
  pc,           \* where start() is
  isRunning,    \* BaseSimulator.isRunning
  realTimeStream, \* BaseSimulator.realTimeStream is non-null
  backfill,     \* the BackfillStream object
  realtime,     \* the RealTimeStream object
  transform,    \* the MetricsTransformStream of the current phase
  sink,         \* the bulk helper of the current phase
  hist,         \* history: what has been emitted, processed, requested
  hostLedger,   \* one counter of MetricsGenerator.counters, and its last step
  weatherLedger,\* one counter of WeatherMetricsGenerator.counters, and its last step
  generator,    \* a MetricsGenerator instance: counters and previousMetrics
  snapshots,    \* the HostMetrics returned so far, as their callers saw them
  genCalls,     \* number of generateMetrics calls made
  held,         \* the HostMetrics objects of this process that callers still hold
  perCoreUsage, \* CpuMetrics.perCoreUsage of the last generateCpuMetrics call
  cpuCalls,     \* number of generateCpuMetrics calls made
  hostMetricsIn,\* the HostMetrics handed to the formatters
  otelDocs,     \* what OtelFormatter.formatMetrics returned for it, call by call
  elasticDocs,  \* what ElasticFormatter.formatMetrics returned for it
  hostConfigs,  \* HostGenerator.hostConfigs
  stationConfigs, \* WeatherStationGenerator.stationConfigs
  lookups,      \* the configurations returned so far, lookup by lookup
  weather,      \* a WeatherMetricsGenerator: counters, and the counter fields last emitted
  logger        \* the SimianLogger: logBuffer, bulk requests in flight, deliveries

pipeVars == <<options, intervalMs, backfillStart, now, advances, pc, isRunning,
              realTimeStream, backfill, realtime, transform, sink, hist>>

ledgerVars == <<hostLedger, weatherLedger>>

genVars == <<generator, snapshots, genCalls, held>>

cpuVars == <<perCoreUsage, cpuCalls>>

renderVars == <<hostMetricsIn, otelDocs, elasticDocs>>

configVars == <<hostConfigs, stationConfigs, lookups>>

stationVars == <<weather>>

logVars == <<logger>>

auxVars == <<cpuVars, renderVars, configVars, stationVars, logVars>>

vars == <<pipeVars, ledgerVars, genVars, auxVars>>

----------------------------------------------------------------------------
(* Bounds *)

MaxClockAdvances == 3   \* the clock advances at most this many times
HighWaterMark == 2      \* buffer limit of an object-mode stream
FlushDocs == 2          \* documents that fill one bulk request
MaxCount == 2           \* largest --count

(* how far the clock moves in one step: 1 ms, or a whole 10 s interval *)
ClockSteps == {1, 10000}

----------------------------------------------------------------------------
(* Pure helpers *)

Min(a, b) == IF a < b THEN a ELSE b

\* ceil(a / b) for a >= 0, b > 0
CeilDiv(a, b) == (a + b - 1) \div b

\* parseInterval with the unit ignored: every value taken as minutes
parseIntervalMinutes(interval) == interval.value * 60 * 1000

\* BaseSimulator.parseInterval on a string that matches /^(\d+)([sm])$/
parseInterval(interval) ==
  IF interval.unit = "s" THEN interval.value * 1000
                         ELSE interval.value * 60 * 1000

\* BaseSimulator.parseBackfill: datemath 'now-{n}s' resolved against the clock
parseBackfill(bf, clock) == clock - bf.seconds * 1000

\* BaseSimulator.generateEntityIds: ids 1..count, in order
generateEntityIds(count) == [i \in 1..count |-> i]

\* bulkHelperOptions.concurrency, and the realtime override
Concurrency == 5
RealTimeConcurrency == Min(Concurrency, 3)

----------------------------------------------------------------------------
(* Run configurations *)

\* Scenario A: --interval 10s --backfill now-30s --count 1
ScenarioA == [interval |-> [value |-> 10, unit |-> "s"],
              backfill |-> [seconds |-> 30], count |-> 1]

\* the run configurations explored
RunOptions ==
  {ScenarioA}
    \cup {[interval |-> [value |-> 10, unit |-> "s"], backfill |-> [seconds |-> 25],
           count |-> c] : c \in 1..MaxCount}
    \cup {[interval |-> [value |-> 1, unit |-> "m"], backfill |-> b, count |-> 1] :
           b \in {[seconds |-> 0], [seconds |-> 30]}}

----------------------------------------------------------------------------
(* Streams *)

Item(entityId, timestamp) == [entityId |-> entityId, timestamp |-> timestamp]

NoBackfillStream ==
  [created |-> FALSE, currentTime |-> 0, endTime |-> 0, entityIndex |-> 0,
   totalItems |-> 0, buffer |-> <<>>, ended |-> FALSE]

\* new BackfillStream(startTime, endTime, entityIds, intervalMs)
NewBackfillStream(startTime, endTime) ==
  [created |-> TRUE, currentTime |-> startTime, endTime |-> endTime,
   entityIndex |-> 0, totalItems |-> 0, buffer |-> <<>>, ended |-> FALSE]

NoRealTimeStream ==
  [created |-> FALSE, intervalId |-> FALSE, isRunning |-> FALSE,
   buffer |-> <<>>, reading |-> FALSE, destroyed |-> FALSE, nextFire |-> 0,
   timers |-> 0]

\* new RealTimeStream(entityIds, intervalMs)
NewRealTimeStream == [NoRealTimeStream EXCEPT !.created = TRUE]

\* new MetricsTransformStream(...)
NewTransformStream == [docs |-> <<>>, errored |-> FALSE]

\* elasticsearchClient.helpers.bulk({...}) just called
NewBulkHelper(clock) == [buffered |-> 0, inFlight |-> <<>>, lastFlush |-> clock]

\* bulkHelperOptions.flushInterval
FlushInterval == 30000

\* the end test with > for >=: a tick at endTime itself is still emitted
BackfillDoneStrict(currentTime, endTime) == currentTime > endTime

\* BackfillStream._read: the end test
BackfillDone(currentTime, endTime) == currentTime >= endTime

\* RealTimeStream._read: the test that starts generation
ShouldStartGeneration(rt) == ~rt.intervalId /\ ~rt.isRunning

\* RealTimeStream.startRealTimeGeneration / generateBatch: one item per entity
generateBatch(rt, count, clock) ==
  IF rt.destroyed THEN rt
  ELSE [rt EXCEPT !.buffer = @ \o [i \in 1..count |-> Item(generateEntityIds(count)[i], clock)],
                  !.reading = FALSE]

\* a stop that forgets the timer without clearing it
StopStreamKeepsTimer(rt) == [rt EXCEPT !.isRunning = FALSE, !.intervalId = FALSE]

\* RealTimeStream.stop; timers counts the interval timers that are scheduled
StopStream(rt) ==
  [rt EXCEPT !.isRunning = FALSE, !.intervalId = FALSE,
             !.timers = IF rt.intervalId THEN @ - 1 ELSE @]

RemoveAt(seq, i) == [j \in 1..(Len(seq) - 1) |-> IF j < i THEN seq[j] ELSE seq[j + 1]]

----------------------------------------------------------------------------
(* State after new HostSimulator(options) / new WeatherSimulator(options) *)

PipeInit ==
  /\ options \in RunOptions
  /\ intervalMs = parseInterval(options.interval)
  /\ now = 0
  /\ backfillStart = parseBackfill(options.backfill, 0)
  /\ advances = 0
  /\ pc = "constructed"
  /\ isRunning = FALSE
  /\ realTimeStream = FALSE
  /\ backfill = NoBackfillStream
  /\ realtime = NoRealTimeStream
  /\ transform = NewTransformStream
  /\ sink = NewBulkHelper(0)
  /\ hist = [bfEmitted |-> <<>>, rtEmitted |-> 0, processed |-> 0,
             thrown |-> 0, stopRequested |-> FALSE, bfDocs |-> 0,
             bfCompleted |-> 0, purged |-> FALSE]

(* The wall clock advances. *)
Advance(d) ==
  /\ advances < MaxClockAdvances
  /\ now' = now + d
  /\ advances' = advances + 1
  /\ UNCHANGED <<options, intervalMs, backfillStart, pc, isRunning, realTimeStream,
                 backfill, realtime, transform, sink, hist>>
  /\ UNCHANGED <<ledgerVars, genVars, auxVars>>

(* BaseSimulator.start up to its first await *)
Start ==
  /\ pc = "constructed"
  /\ pc' = "started"
  /\ isRunning' = TRUE
  /\ UNCHANGED <<options, intervalMs, backfillStart, now, advances, realTimeStream,
                 backfill, realtime, transform, sink, hist>>
  /\ UNCHANGED <<ledgerVars, genVars, auxVars>>

(* BaseSimulator.runBackfillStream up to await helpers.bulk *)
RunBackfillStream ==
  /\ pc = "started"
  /\ pc' = "backfill"
  /\ backfill' = NewBackfillStream(backfillStart, now)
  /\ transform' = NewTransformStream
  /\ sink' = NewBulkHelper(now)
  /\ UNCHANGED <<options, intervalMs, backfillStart, now, advances, isRunning,
                 realTimeStream, realtime, hist>>
  /\ UNCHANGED <<ledgerVars, genVars, auxVars>>

\* BackfillStream._read that advances the virtual time after every tick
BackfillReadAdvancesEveryTick ==
  /\ pc = "backfill"
  /\ backfill.created /\ ~backfill.ended
  /\ ~transform.errored
  /\ Len(backfill.buffer) < HighWaterMark
  /\ IF BackfillDone(backfill.currentTime, backfill.endTime)
       THEN /\ backfill' = [backfill EXCEPT !.ended = TRUE]
            /\ UNCHANGED hist
       ELSE LET item == Item(generateEntityIds(options.count)[backfill.entityIndex + 1],
                             backfill.currentTime)
                next == backfill.entityIndex + 1
            IN /\ backfill' =
                    [backfill EXCEPT
                       !.buffer = Append(@, item),
                       !.totalItems = @ + 1,
                       !.entityIndex = IF next >= options.count THEN 0 ELSE next,
                       !.currentTime = @ + intervalMs]
               /\ hist' = [hist EXCEPT !.bfEmitted = Append(@, item)]
  /\ UNCHANGED <<options, intervalMs, backfillStart, now, advances, pc, isRunning,
                 realTimeStream, realtime, transform, sink>>
  /\ UNCHANGED <<ledgerVars, genVars, auxVars>>

(* BackfillStream._read, called by the stream when its buffer is below the
   high-water mark and it has not ended *)
BackfillRead ==
  /\ pc = "backfill"
  /\ backfill.created /\ ~backfill.ended
  /\ ~transform.errored
  /\ Len(backfill.buffer) < HighWaterMark
  /\ IF BackfillDone(backfill.currentTime, backfill.endTime)
       THEN /\ backfill' = [backfill EXCEPT !.ended = TRUE]
            /\ UNCHANGED hist
       ELSE LET item == Item(generateEntityIds(options.count)[backfill.entityIndex + 1],
                             backfill.currentTime)
                next == backfill.entityIndex + 1
            IN /\ backfill' =
                    [backfill EXCEPT
                       !.buffer = Append(@, item),
                       !.totalItems = @ + 1,
                       !.entityIndex = IF next >= options.count THEN 0 ELSE next,
                       !.currentTime = IF next >= options.count THEN @ + intervalMs ELSE @]
               /\ hist' = [hist EXCEPT !.bfEmitted = Append(@, item)]
  /\ UNCHANGED <<options, intervalMs, backfillStart, now, advances, pc, isRunning,
                 realTimeStream, realtime, transform, sink>>
  /\ UNCHANGED <<ledgerVars, genVars, auxVars>>

\* the stream the transform of the current phase is piped from
SourceBuffer == IF pc = "backfill" THEN backfill.buffer ELSE realtime.buffer

(* MetricsTransformStream._transform on the next item of the piped source.
   throws: generateConfig, generateMetrics or formatMetrics throws. *)
Transform(throws) ==
  /\ pc \in {"backfill", "realtime"}
  /\ ~transform.errored
  /\ SourceBuffer # <<>>
  /\ Len(transform.docs) < HighWaterMark
  /\ LET item == Head(SourceBuffer) IN
       IF throws
         THEN \* catch: callback(error) errors the transform stream
              /\ transform' = [transform EXCEPT !.errored = TRUE]
              /\ hist' = [hist EXCEPT !.thrown = @ + 1]
         ELSE \* this.push(document); callback()
              /\ transform' = [transform EXCEPT !.docs = Append(@, item)]
              /\ hist' = [hist EXCEPT !.processed = @ + 1,
                                      !.bfDocs = IF pc = "backfill" THEN @ + 1 ELSE @]
  /\ IF pc = "backfill"
       THEN backfill' = [backfill EXCEPT !.buffer = Tail(@)] /\ UNCHANGED realtime
       ELSE realtime' = [realtime EXCEPT !.buffer = Tail(@)] /\ UNCHANGED backfill
  /\ UNCHANGED <<options, intervalMs, backfillStart, now, advances, pc, isRunning,
                 realTimeStream, sink>>
  /\ UNCHANGED <<ledgerVars, genVars, auxVars>>

\* the datasource handed to helpers.bulk has ended and is drained
DatasourceEnded ==
  /\ pc = "backfill"
  /\ backfill.ended /\ backfill.buffer = <<>>
  /\ transform.docs = <<>>

(* helpers.bulk reads one document from its datasource (onDocument) *)
SinkTake ==
  /\ pc \in {"backfill", "realtime"}
  /\ ~transform.errored
  /\ transform.docs # <<>>
  /\ sink.buffered < FlushDocs
  /\ transform' = [transform EXCEPT !.docs = Tail(@)]
  /\ sink' = [sink EXCEPT !.buffered = @ + 1]
  /\ UNCHANGED <<options, intervalMs, backfillStart, now, advances, pc, isRunning,
                 realTimeStream, backfill, realtime, hist>>
  /\ UNCHANGED <<ledgerVars, genVars, auxVars>>

(* helpers.bulk sends what it has buffered as one bulk request: the buffer is
   full (flushBytes), the flush timer elapsed (flushInterval), or the
   datasource ended *)
SinkFlush ==
  /\ pc \in {"backfill", "realtime"}
  /\ ~transform.errored
  /\ sink.buffered > 0
  /\ \/ sink.buffered >= FlushDocs
     \/ now - sink.lastFlush >= FlushInterval
     \/ DatasourceEnded
  /\ Len(sink.inFlight) < (IF pc = "backfill" THEN Concurrency ELSE RealTimeConcurrency)
  /\ sink' = [sink EXCEPT !.buffered = 0, !.inFlight = Append(@, sink.buffered),
                          !.lastFlush = now]
  /\ UNCHANGED <<options, intervalMs, backfillStart, now, advances, pc, isRunning,
                 realTimeStream, backfill, realtime, transform, hist>>
  /\ UNCHANGED <<ledgerVars, genVars, auxVars>>

(* a bulk request finishes: its documents were indexed, or failed after the
   retries and were handed to onDrop *)
SinkBatchDone(i) ==
  /\ i \in 1..Len(sink.inFlight)
  /\ sink' = [sink EXCEPT !.inFlight = RemoveAt(@, i)]
  /\ hist' = [hist EXCEPT
                !.bfCompleted = IF pc = "backfill" THEN @ + sink.inFlight[i] ELSE @]
  /\ UNCHANGED <<options, intervalMs, backfillStart, now, advances, pc, isRunning,
                 realTimeStream, backfill, realtime, transform>>
  /\ UNCHANGED <<ledgerVars, genVars, auxVars>>

\* the run goes on as soon as the datasource is drained, without awaiting the
\* bulk requests still in flight
BulkHelperResolvedEarly ==
  /\ DatasourceEnded
  /\ ~transform.errored
  /\ sink.buffered = 0

\* the promise of helpers.bulk resolves: datasource ended, nothing buffered,
\* no request in flight
BulkHelperResolved ==
  /\ DatasourceEnded
  /\ ~transform.errored
  /\ sink.buffered = 0
  /\ sink.inFlight = <<>>

(* await runBackfillStream() returns; runRealTimeStream runs up to
   await helpers.bulk *)
RunRealTimeStream ==
  /\ pc = "backfill"
  /\ BulkHelperResolved
  /\ pc' = "realtime"
  /\ realtime' = NewRealTimeStream
  /\ realTimeStream' = TRUE
  /\ transform' = NewTransformStream
  /\ sink' = NewBulkHelper(now)
  /\ UNCHANGED <<options, intervalMs, backfillStart, now, advances, isRunning,
                 backfill, hist>>
  /\ UNCHANGED <<ledgerVars, genVars, auxVars>>

(* a _read that arms the timer without generating the initial batch *)
RealTimeReadTimerOnly ==
  /\ pc = "realtime"
  /\ realtime.created /\ ~realtime.destroyed
  /\ ~realtime.reading
  /\ Len(realtime.buffer) < HighWaterMark
  /\ IF ShouldStartGeneration(realtime)
       THEN realtime' = [realtime EXCEPT !.isRunning = TRUE, !.intervalId = TRUE,
                                         !.nextFire = now + intervalMs,
                                         !.timers = @ + 1]
       ELSE realtime' = [realtime EXCEPT !.reading = TRUE]
  /\ UNCHANGED hist
  /\ UNCHANGED <<options, intervalMs, backfillStart, now, advances, pc, isRunning,
                 realTimeStream, backfill, transform, sink>>
  /\ UNCHANGED <<ledgerVars, genVars, auxVars>>

(* RealTimeStream._read, called by the stream when no read is outstanding and
   its buffer is below the high-water mark *)
RealTimeRead ==
  /\ pc = "realtime"
  /\ realtime.created /\ ~realtime.destroyed
  /\ ~realtime.reading
  /\ Len(realtime.buffer) < HighWaterMark
  /\ IF ShouldStartGeneration(realtime)
       THEN \* startRealTimeGeneration: initial batch, then setInterval
            /\ realtime' = [generateBatch([realtime EXCEPT !.isRunning = TRUE],
                                          options.count, now)
                              EXCEPT !.intervalId = TRUE, !.nextFire = now + intervalMs,
                                     !.timers = @ + 1]
            /\ hist' = [hist EXCEPT !.rtEmitted = @ + options.count]
       ELSE /\ realtime' = [realtime EXCEPT !.reading = TRUE]
            /\ UNCHANGED hist
  /\ UNCHANGED <<options, intervalMs, backfillStart, now, advances, pc, isRunning,
                 realTimeStream, backfill, transform, sink>>
  /\ UNCHANGED <<ledgerVars, genVars, auxVars>>

(* the setInterval callback of startRealTimeGeneration *)
TimerFire ==
  /\ realtime.intervalId
  /\ now >= realtime.nextFire
  /\ realtime' = [generateBatch(realtime, options.count, now)
                    EXCEPT !.nextFire = now + intervalMs]
  /\ hist' = [hist EXCEPT !.rtEmitted =
                IF realtime.destroyed THEN @ ELSE @ + options.count]
  /\ UNCHANGED <<options, intervalMs, backfillStart, now, advances, pc, isRunning,
                 realTimeStream, backfill, transform, sink>>
  /\ UNCHANGED <<ledgerVars, genVars, auxVars>>

(* BaseSimulator.stop *)
Stop ==
  /\ pc \notin {"cli", "aborted", "constructed"}
  /\ isRunning' = FALSE
  /\ IF realTimeStream
       THEN realtime' = StopStream(realtime) /\ realTimeStream' = FALSE
       ELSE UNCHANGED <<realtime, realTimeStream>>
  /\ hist' = [hist EXCEPT !.stopRequested = TRUE]
  /\ UNCHANGED <<options, intervalMs, backfillStart, now, advances, pc,
                 backfill, transform, sink>>
  /\ UNCHANGED <<ledgerVars, genVars, auxVars>>

(* the errored transform makes helpers.bulk reject: runBackfillStream /
   runRealTimeStream rethrow and start() rejects *)
StartRejects ==
  /\ pc \in {"backfill", "realtime"}
  /\ transform.errored
  /\ pc' = "failed"
  /\ UNCHANGED <<options, intervalMs, backfillStart, now, advances, isRunning,
                 realTimeStream, backfill, realtime, transform, sink, hist>>
  /\ UNCHANGED <<ledgerVars, genVars, auxVars>>

PipeNext ==
  \/ \E d \in ClockSteps : Advance(d)
  \/ Start
  \/ RunBackfillStream
  \/ BackfillRead
  \/ \E throws \in BOOLEAN : Transform(throws)
  \/ SinkTake
  \/ SinkFlush
  \/ \E i \in 1..Concurrency : SinkBatchDone(i)
  \/ RunRealTimeStream
  \/ RealTimeRead
  \/ TimerFire
  \/ Stop
  \/ StartRejects

----------------------------------------------------------------------------
(* The Backfill Producer on its own: a BackfillStream built from an accepted
   interval string and a backfill start, read by a consumer that drains it *)

MaxBackfillTicks == 6   \* the producer is followed for at most this many ticks

\* interval strings that parseInterval accepts, backfill starts before, at and
\* after the start of the phase, and the entity counts
ProducerOptions ==
  [interval : {[value |-> 0, unit |-> "s"], [value |-> 10, unit |-> "s"],
               [value |-> 1, unit |-> "m"]},
   backfill : {[seconds |-> 0], [seconds |-> 25], [seconds |-> 30], [seconds |-> -10]},
   count : 1..MaxCount]

ProducerInit ==
  /\ options \in ProducerOptions
  /\ intervalMs = parseInterval(options.interval)
  /\ now = 0
  /\ backfillStart = parseBackfill(options.backfill, 0)
  /\ advances = 0
  /\ pc = "backfill"
  /\ isRunning = TRUE
  /\ realTimeStream = FALSE
  /\ backfill = NewBackfillStream(backfillStart, now)
  /\ realtime = NoRealTimeStream
  /\ transform = NewTransformStream
  /\ sink = NewBulkHelper(0)
  /\ hist = [bfEmitted |-> <<>>, rtEmitted |-> 0, processed |-> 0,
             thrown |-> 0, stopRequested |-> FALSE, bfDocs |-> 0,
             bfCompleted |-> 0, purged |-> FALSE]

ProducerRead ==
  /\ \/ backfill.totalItems < MaxBackfillTicks
     \/ BackfillDone(backfill.currentTime, backfill.endTime)
  /\ BackfillRead

ProducerNext ==
  \/ ProducerRead
  \/ Transform(FALSE)
  \/ SinkTake
  \/ SinkFlush
  \/ \E i \in 1..Concurrency : SinkBatchDone(i)

----------------------------------------------------------------------------
(* The Realtime Producer on its own: a RealTimeStream under read requests,
   stop() calls and destroy() calls, read by a consumer that drains it *)

MaxStreamTicks == 4     \* stop() is called only while fewer ticks were emitted

\* --interval 10s, the backfill start at the start of the run, each count
StreamOptions ==
  {[interval |-> [value |-> 10, unit |-> "s"], backfill |-> [seconds |-> 0],
    count |-> c] : c \in 1..MaxCount}

StreamInit ==
  /\ options \in StreamOptions
  /\ intervalMs = parseInterval(options.interval)
  /\ now = 0
  /\ backfillStart = parseBackfill(options.backfill, 0)
  /\ advances = 0
  /\ pc = "realtime"
  /\ isRunning = TRUE
  /\ realTimeStream = TRUE
  /\ backfill = NoBackfillStream
  /\ realtime = NewRealTimeStream
  /\ transform = NewTransformStream
  /\ sink = NewBulkHelper(0)
  /\ hist = [bfEmitted |-> <<>>, rtEmitted |-> 0, processed |-> 0,
             thrown |-> 0, stopRequested |-> FALSE, bfDocs |-> 0,
             bfCompleted |-> 0, purged |-> FALSE]

(* RealTimeStream.stop() *)
StreamStop ==
  /\ realtime.created
  /\ hist.rtEmitted < MaxStreamTicks
  /\ realtime' = StopStream(realtime)
  /\ hist' = [hist EXCEPT !.stopRequested = TRUE]
  /\ UNCHANGED <<options, intervalMs, backfillStart, now, advances, pc, isRunning,
                 realTimeStream, backfill, transform, sink>>
  /\ UNCHANGED <<ledgerVars, genVars, auxVars>>

(* stream.destroy(): Readable marks the stream destroyed and calls _destroy,
   which calls stop() *)
StreamDestroy ==
  /\ realtime.created /\ ~realtime.destroyed
  /\ realtime' = [StopStream(realtime) EXCEPT !.destroyed = TRUE]
  /\ UNCHANGED <<options, intervalMs, backfillStart, now, advances, pc, isRunning,
                 realTimeStream, backfill, transform, sink, hist>>
  /\ UNCHANGED <<ledgerVars, genVars, auxVars>>

StreamNext ==
  \/ \E d \in ClockSteps : Advance(d)
  \/ RealTimeRead
  \/ TimerFire
  \/ StreamStop
  \/ StreamDestroy
  \/ Transform(FALSE)
  \/ SinkTake
  \/ SinkFlush
  \/ \E i \in 1..Concurrency : SinkBatchDone(i)

----------------------------------------------------------------------------
(* main() of index.ts up to the construction of the simulator *)

Datasets == {"hosts", "weather"}
Formats == {"otel", "elastic", "both"}

\* --interval 10s --backfill now-25s --count 1 --dataset hosts --format both
WellFormed == [interval |-> [value |-> 10, unit |-> "s"], backfill |-> [seconds |-> 25],
               count |-> 1, dataset |-> "hosts", format |-> "both", purge |-> FALSE]

\* the well-formed command line, and it with --interval 10h, with
\* --interval -1s, with --backfill yesterday, with --dataset logs, with
\* --format xml and with --count 0
WithoutPurge ==
  { WellFormed,
    [WellFormed EXCEPT !.interval = [value |-> 10, unit |-> "h"]],
    [WellFormed EXCEPT !.interval = [value |-> -1, unit |-> "s"]],
    [WellFormed EXCEPT !.backfill = [text |-> "yesterday"]],
    [WellFormed EXCEPT !.dataset = "logs"],
    [WellFormed EXCEPT !.format = "xml"],
    [WellFormed EXCEPT !.count = 0] }

\* command lines: each of them without and with --purge
CommandLines ==
  {[commandLine EXCEPT !.purge = purge] : commandLine \in WithoutPurge, purge \in BOOLEAN}

\* a match that accepts any unit letter
intervalMatchesAnyUnit(interval) == interval.value >= 0

\* interval.match(/^(\d+)([sm])$/)
intervalMatches(interval) == interval.value >= 0 /\ interval.unit \in {"s", "m"}

\* datemath.parse(backfill) is defined and valid
backfillParses(bf) == "seconds" \in DOMAIN bf

\* main() validates the dataset, the format (of the hosts dataset) and the count
ValidatedByMain(commandLine) ==
  /\ commandLine.dataset \in Datasets
  /\ commandLine.dataset = "hosts" => commandLine.format \in Formats
  /\ commandLine.count > 0

\* the validation of main() and the constructor of BaseSimulator let it through
Accepted(commandLine) ==
  /\ ValidatedByMain(commandLine)
  /\ intervalMatches(commandLine.interval)
  /\ backfillParses(commandLine.backfill)

CliInit ==
  /\ options \in CommandLines
  /\ intervalMs = 0
  /\ now = 0
  /\ backfillStart = 0
  /\ advances = 0
  /\ pc = "cli"
  /\ isRunning = FALSE
  /\ realTimeStream = FALSE
  /\ backfill = NoBackfillStream
  /\ realtime = NoRealTimeStream
  /\ transform = NewTransformStream
  /\ sink = NewBulkHelper(0)
  /\ hist = [bfEmitted |-> <<>>, rtEmitted |-> 0, processed |-> 0,
             thrown |-> 0, stopRequested |-> FALSE, bfDocs |-> 0,
             bfCompleted |-> 0, purged |-> FALSE]

(* main(): validate the dataset, the format and the count, purge the data
   streams when --purge is given, then new HostSimulator(...) or
   new WeatherSimulator(...), whose constructor parses interval and backfill;
   any of them throwing ends the run *)
Main ==
  /\ pc = "cli"
  /\ IF Accepted(options)
       THEN /\ pc' = "constructed"
            /\ intervalMs' = parseInterval(options.interval)
            /\ backfillStart' = parseBackfill(options.backfill, now)
       ELSE /\ pc' = "aborted"
            /\ UNCHANGED <<intervalMs, backfillStart>>
  /\ hist' = [hist EXCEPT !.purged = options.purge /\ ValidatedByMain(options)]
  /\ UNCHANGED <<options, now, advances, isRunning, realTimeStream,
                 backfill, realtime, transform, sink>>
  /\ UNCHANGED <<ledgerVars, genVars, auxVars>>

CliNext ==
  \/ Main
  \/ PipeNext

----------------------------------------------------------------------------
(* Numbers.  A counter value is a non-negative double that is a multiple of
   0.5; it is held exactly, in half-units, as two limbs hi * LimbBase + lo,
   since the values of interest lie around 2^53. *)

LimbBase == 2^27

Num(hi, lo) == [hi |-> hi, lo |-> lo]

\* a small value given in half-units
Half(n) == Num(n \div LimbBase, n % LimbBase)

\* a whole number
Whole(n) == Half(2 * n)

NumAdd(a, b) ==
  LET lo == a.lo + b.lo
  IN Num(a.hi + b.hi + (lo \div LimbBase), lo % LimbBase)

\* a - k for a small k (half-units) with a >= k
NumSubSmall(a, k) ==
  IF a.lo >= k THEN Num(a.hi, a.lo - k) ELSE Num(a.hi - 1, a.lo + LimbBase - k)

NumLess(a, b) == a.hi < b.hi \/ (a.hi = b.hi /\ a.lo < b.lo)

\* Number.MAX_SAFE_INTEGER = 2^53 - 1, i.e. 2^54 - 2 half-units
MAX_SAFE_INTEGER == Num(LimbBase - 1, LimbBase - 2)

\* MAX_SAFE_INTEGER - k for a small whole k
MaxSafeMinus(k) == NumSubSmall(MAX_SAFE_INTEGER, 2 * k)

\* the double nearest to the exact value x (round half to even): doubles are
\* exact in halves below 2^52, whole in [2^52, 2^53), even in [2^53, 2^54)
RoundDouble(x) ==
  IF NumLess(x, Num(LimbBase \div 2, 0))
    THEN x
  ELSE IF NumLess(x, Num(LimbBase, 0))
    THEN IF x.lo % 2 = 0 THEN x
         ELSE IF (x.lo - 1) % 4 = 0 THEN NumSubSmall(x, 1)
         ELSE NumAdd(x, Half(1))
  ELSE CASE x.lo % 4 = 0 -> x
         [] x.lo % 4 = 1 -> NumSubSmall(x, 1)
         [] x.lo % 4 = 3 -> NumAdd(x, Half(1))
         [] OTHER -> IF (x.lo - 2) % 8 = 0 THEN NumSubSmall(x, 2)
                     ELSE NumAdd(x, Half(2))

\* Math.floor
Floor(x) == Num(x.hi, x.lo - (x.lo % 2))

----------------------------------------------------------------------------
(* Counter ledgers *)

\* incrementCounter resetting to zero on overflow
incrementCounterResetZero(current, increment) ==
  LET newValue == RoundDouble(NumAdd(current, increment))
  IN IF NumLess(MAX_SAFE_INTEGER, newValue) THEN Whole(0) ELSE Floor(newValue)

\* MetricsGenerator.incrementCounter
incrementCounter(current, increment) ==
  LET newValue == RoundDouble(NumAdd(current, increment))
  IN IF NumLess(MAX_SAFE_INTEGER, newValue) THEN increment ELSE Floor(newValue)

\* WeatherMetricsGenerator.incrementCounter, on the entry counters[key]
weatherIncrementCounter(current, increment) ==
  LET sum == RoundDouble(NumAdd(current, increment))
  IN IF NumLess(MAX_SAFE_INTEGER, sum) THEN Whole(0) ELSE sum

MaxLedgerSteps == 3    \* increments applied to one counter

\* increments of one tick: 0, 0.5, 1.5, 20, 20.5
Increments == {Half(0), Half(1), Half(3), Whole(20), Half(41)}

\* values a host counter holds before a tick: whole numbers
HostSeeds == {Whole(0), MaxSafeMinus(21), MaxSafeMinus(5), MaxSafeMinus(1), MAX_SAFE_INTEGER}

\* values a weather counter holds before a tick
WeatherSeeds == {Whole(0), MaxSafeMinus(5), NumSubSmall(MAX_SAFE_INTEGER, 1)}

Ledger(value) ==
  [value |-> value, previous |-> value, increment |-> Whole(0),
   overflowed |-> FALSE, steps |-> 0]

LedgerInit ==
  /\ hostLedger \in {Ledger(v) : v \in HostSeeds}
  /\ weatherLedger \in {Ledger(v) : v \in WeatherSeeds}

LedgerIdle ==
  /\ hostLedger = Ledger(Whole(0))
  /\ weatherLedger = Ledger(Whole(0))

\* the sum computed at a step exceeded MAX_SAFE_INTEGER
Overflows(current, increment) ==
  NumLess(MAX_SAFE_INTEGER, RoundDouble(NumAdd(current, increment)))

(* one tick's update of a host counter:
   hostCounters[key] = this.incrementCounter(hostCounters[key] || 0, inc) *)
HostIncrement(inc) ==
  /\ hostLedger.steps < MaxLedgerSteps
  /\ hostLedger' = [value |-> incrementCounter(hostLedger.value, inc),
                    previous |-> hostLedger.value,
                    increment |-> inc,
                    overflowed |-> Overflows(hostLedger.value, inc),
                    steps |-> hostLedger.steps + 1]
  /\ UNCHANGED <<pipeVars, weatherLedger, genVars, auxVars>>

(* one tick's update of a weather-station counter:
   this.incrementCounter(counters, key, inc) *)
WeatherIncrement(inc) ==
  /\ weatherLedger.steps < MaxLedgerSteps
  /\ weatherLedger' = [value |-> weatherIncrementCounter(weatherLedger.value, inc),
                       previous |-> weatherLedger.value,
                       increment |-> inc,
                       overflowed |-> Overflows(weatherLedger.value, inc),
                       steps |-> weatherLedger.steps + 1]
  /\ UNCHANGED <<pipeVars, hostLedger, genVars, auxVars>>

\* the pipeline at rest while the ledgers are exercised
PipeIdle == PipeInit /\ options = ScenarioA

LedgerNext ==
  \/ \E inc \in Increments : HostIncrement(inc)
  \/ \E inc \in Increments : WeatherIncrement(inc)

----------------------------------------------------------------------------
(* MetricsGenerator (host metrics) *)

MaxGenCalls == 3       \* generateMetrics calls in one behaviour
Hosts == 1..2          \* host-01, host-02
GenTimestamps == {0, 10000, 20000}

LcgModulus == 2^8

\* hashString(hostConfig.name + timestamp.getTime() + salt), low bits
hashString(host, timestamp, salt) ==
  (host * 31 + (timestamp \div 1000) * 7 + salt) % LcgModulus

\* seededRandom(seed)(): the first draw of the linear congruential generator
\* state * 1664525 + 1013904223, reduced to its low 8 bits
seededRandom(seed) == (seed * (1664525 % LcgModulus) + (1013904223 % LcgModulus)) % LcgModulus

\* generateCpuMetrics: core 0's user percentage, a function of host and time
cpuUserPercent(host, timestamp) ==
  25 * (1 + (seededRandom(hashString(host, timestamp, 0)) % 3))

\* generateDiskIOMetrics: readBytesPerSec, a function of host, time and device
readBytesPerSec(host, timestamp) ==
  Half(1 + (seededRandom(hashString(host, timestamp, 1)) % 4))

NoTimestamp == -1

\* new MetricsGenerator(): counters and previousMetrics are empty maps
NewMetricsGenerator ==
  [counters |-> [h \in Hosts |-> [cpu_time_0_user |-> Whole(0),
                                  diskio_read_bytes |-> Whole(0)]],
   previousTimestamp |-> [h \in Hosts |-> NoTimestamp]]

\* generateCpuMetrics: seconds since the host's previous tick, 60 the first time
intervalSeconds(g, host, timestamp) ==
  IF g.previousTimestamp[host] # NoTimestamp
    THEN (timestamp - g.previousTimestamp[host]) \div 1000
    ELSE 60

\* (percent / 100) * intervalSeconds, in half-units
incrementSeconds(percent, seconds) == Half((percent * seconds * 2) \div 100)

\* the counters of a host after generateMetrics(host, timestamp)
countersAfter(g, host, timestamp) ==
  [cpu_time_0_user |->
     incrementCounter(g.counters[host].cpu_time_0_user,
                      incrementSeconds(cpuUserPercent(host, timestamp),
                                       intervalSeconds(g, host, timestamp))),
   diskio_read_bytes |->
     incrementCounter(g.counters[host].diskio_read_bytes,
                      readBytesPerSec(host, timestamp))]

\* the HostMetrics that generateMetrics(host, timestamp) returns
hostMetrics(g, host, timestamp) ==
  [host |-> host, timestamp |-> timestamp,
   cpuUser |-> cpuUserPercent(host, timestamp),
   counters |-> countersAfter(g, host, timestamp)]

\* what a caller reads through a HostMetrics it holds: the scalar fields are
\* its own, counters is the generator's live hostCounters object
Observed(metrics) == [metrics EXCEPT !.counters = generator.counters[metrics.host]]

GenInit ==
  /\ generator = NewMetricsGenerator
  /\ snapshots = {}
  /\ genCalls = 0
  /\ held = {}

(* a generateMetrics that keeps one counter object for all hosts *)
GenerateMetricsSharedCounters(host, timestamp) ==
  /\ genCalls < MaxGenCalls
  /\ generator.previousTimestamp[host] <= timestamp
  /\ generator' = [generator EXCEPT
                     !.counters = [h \in Hosts |-> countersAfter(generator, host, timestamp)],
                     !.previousTimestamp[host] = timestamp]
  /\ snapshots' = snapshots \cup {hostMetrics(generator, host, timestamp)}
  /\ held' = held \cup {hostMetrics(generator, host, timestamp)}
  /\ genCalls' = genCalls + 1
  /\ UNCHANGED <<pipeVars, ledgerVars, auxVars>>

(* MetricsGenerator.generateMetrics(hostConfig, timestamp) *)
GenerateMetrics(host, timestamp) ==
  /\ genCalls < MaxGenCalls
  /\ generator.previousTimestamp[host] <= timestamp
  /\ generator' = [generator EXCEPT
                     !.counters[host] = countersAfter(generator, host, timestamp),
                     !.previousTimestamp[host] = timestamp]
  /\ snapshots' = snapshots \cup {hostMetrics(generator, host, timestamp)}
  /\ held' = held \cup {hostMetrics(generator, host, timestamp)}
  /\ genCalls' = genCalls + 1
  /\ UNCHANGED <<pipeVars, ledgerVars, auxVars>>

(* the process is started anew: createMetricsGenerator builds a new instance *)
FreshProcess ==
  /\ generator # NewMetricsGenerator
  /\ generator' = NewMetricsGenerator
  /\ held' = {}
  /\ UNCHANGED <<snapshots, genCalls, pipeVars, ledgerVars, auxVars>>

GenNext ==
  \/ \E host \in Hosts, timestamp \in GenTimestamps : GenerateMetrics(host, timestamp)
  \/ FreshProcess

----------------------------------------------------------------------------
(* MetricsGenerator.generateCpuMetrics: the per-core state percentages.
   Percentages are exact integers in units of 1/PercentScale percent; the
   arithmetic is that of the reals, without the rounding of doubles. *)

MaxVcpus == 2          \* largest hostConfig.vcpus
MaxCpuCalls == 2       \* generateCpuMetrics calls in one behaviour
CpuTimestamps == {0, 10000, 23000}

\* hours of the day at which the sine of getTimeBasedLoad is 0 or 1
Hours == {0, 6, 9, 13, 20}

PercentScale == 100 * LcgModulus * LcgModulus
OneHundredPercent == 100 * PercentScale

\* Math.max
Max(a, b) == IF a > b THEN a ELSE b

\* Math.sin(2 * PI * k / n) where the angle is a whole number of quarter turns
Sine(k, n) == IF 4 * k = n THEN 1 ELSE IF 4 * k = 3 * n THEN -1 ELSE 0

\* getTimeBasedLoad(hour), in percent
getTimeBasedLoad(hour) ==
  IF hour >= 9 /\ hour <= 17 THEN 60 + Sine(hour - 9, 16) * 20
  ELSE IF hour >= 18 /\ hour <= 22 THEN 40 + Sine(hour - 18, 8) * 15
  ELSE 15 + Sine(hour, 24) * 10

\* the state of the generator seededRandom(seed) after its k-th call; the
\* value the call returns is state / LcgModulus
RECURSIVE coreRandom(_, _)
coreRandom(seed, k) == IF k = 0 THEN seed ELSE seededRandom(coreRandom(seed, k - 1))

\* coreLoad = Math.max(5, Math.min(95, baseLoad + (coreRandom() - 0.5) * 30)),
\* in units of 1/LcgModulus percent
coreLoad(hour, seed) ==
  Max(5 * LcgModulus,
      Min(95 * LcgModulus,
          getTimeBasedLoad(hour) * LcgModulus + 30 * coreRandom(seed, 1) - 15 * LcgModulus))

\* the shares of the used CPU, in units of 1/(20 * LcgModulus)
userShare(seed) == 8 * LcgModulus + 4 * coreRandom(seed, 2)   \* 0.5 + (r - 0.5) * 0.2
niceShare(seed) == LcgModulus + coreRandom(seed, 3)           \* 0.05 + r * 0.05
systemShare(seed) == 3 * LcgModulus + 2 * coreRandom(seed, 4) \* 0.2 + (r - 0.5) * 0.1
waitShare(seed) == LcgModulus + coreRandom(seed, 5)           \* 0.05 + r * 0.05

\* remaining = totalUsed - user - nice - system - wait, as a share
remainingShare(seed) ==
  20 * LcgModulus - userShare(seed) - niceShare(seed) - systemShare(seed) - waitShare(seed)

\* the coreUsage record of one core
coreUsage(core, hour, seed) ==
  LET totalUsed == coreLoad(hour, seed)
      remaining == 5 * totalUsed * remainingShare(seed)
  IN [core |-> core,
      user |-> Max(0, 5 * totalUsed * userShare(seed)),
      nice |-> Max(0, 5 * totalUsed * niceShare(seed)),
      system |-> Max(0, 5 * totalUsed * systemShare(seed)),
      idle |-> Max(0, (100 * LcgModulus - totalUsed) * 100 * LcgModulus),
      wait |-> Max(0, 5 * totalUsed * waitShare(seed)),
      interrupt |-> Max(0, (remaining * 2) \div 5),
      softirq |-> Max(0, (remaining * 2) \div 5),
      steal |-> Max(0, remaining \div 5)]

\* perCoreUsage as generateCpuMetrics(hostConfig, timestamp) builds it
generateCpuMetrics(host, vcpus, timestamp, hour) ==
  [i \in 1..vcpus |-> coreUsage(i - 1, hour, hashString(host, timestamp, i - 1))]

CpuInit ==
  /\ perCoreUsage = <<>>
  /\ cpuCalls = 0

CpuIdle == CpuInit

(* MetricsGenerator.generateCpuMetrics(hostConfig, timestamp) *)
GenerateCpuMetrics(host, vcpus, timestamp, hour) ==
  /\ cpuCalls < MaxCpuCalls
  /\ perCoreUsage' = generateCpuMetrics(host, vcpus, timestamp, hour)
  /\ cpuCalls' = cpuCalls + 1
  /\ UNCHANGED <<pipeVars, ledgerVars, genVars, renderVars, configVars,
                 stationVars, logVars>>

CpuNext ==
  \E host \in Hosts, vcpus \in 1..MaxVcpus, timestamp \in CpuTimestamps, hour \in Hours :
    GenerateCpuMetrics(host, vcpus, timestamp, hour)

----------------------------------------------------------------------------
(* OtelFormatter and ElasticFormatter.  Numbers are exact fractions n/d in
   lowest terms; NaN is what JavaScript arithmetic on undefined yields. *)

MaxRenders == 2        \* formatMetrics calls per formatter on one HostMetrics
CoreCounts == {1, 4}

RECURSIVE GCD(_, _)
GCD(a, b) == IF b = 0 THEN a ELSE GCD(b, a % b)

Rat(n, d) == LET g == GCD(n, d) IN [n |-> n \div g, d |-> d \div g]
NaN == [n |-> 0, d |-> 0]
Undefined == [undefined |-> TRUE]

\* object[field]: undefined when the object has no such property
Get(object, field) == IF field \in DOMAIN object THEN object[field] ELSE Undefined

\* x / k
Divide(x, k) == IF x = Undefined \/ x = NaN THEN NaN ELSE Rat(x.n, x.d * k)

\* x + y
Add(x, y) == Rat(x.n * y.d + y.n * x.d, x.d * y.d)

RECURSIVE SumOver(_, _, _)
SumOver(cores, state, i) ==
  IF i = 0 THEN Rat(0, 1) ELSE Add(SumOver(cores, state, i - 1), cores[i][state])

CpuStates == {"user", "nice", "system", "idle", "wait", "interrupt", "softirq", "steal"}

\* per-core usages in percent that sum to 100
CoreUsageSamples ==
  << [user |-> Rat(40, 1), nice |-> Rat(4, 1), system |-> Rat(16, 1), idle |-> Rat(30, 1),
      wait |-> Rat(4, 1), interrupt |-> Rat(2, 1), softirq |-> Rat(2, 1), steal |-> Rat(2, 1)],
     [user |-> Rat(10, 1), nice |-> Rat(1, 1), system |-> Rat(5, 1), idle |-> Rat(161, 2),
      wait |-> Rat(2, 1), interrupt |-> Rat(1, 1), softirq |-> Rat(1, 2), steal |-> Rat(0, 1)] >>

LoadSamples ==
  { [load1m |-> Rat(5, 4), load5m |-> Rat(1, 1), load15m |-> Rat(3, 4)],
    [load1m |-> Rat(0, 1), load5m |-> Rat(1, 8), load15m |-> Rat(1, 4)] }

\* memory.usagePercent
MemorySamples == {Rat(40, 1), Rat(125, 2)}

\* cumulative counters and sizes, in bytes
ByteSamples == {0, 4096}

Providers == {"aws", "azure"}

\* avgUsage: the per-core percentages averaged over the cores
avgUsage(cores) == [state \in CpuStates |-> Divide(SumOver(cores, state, Len(cores)), Len(cores))]

\* a HostMetrics as MetricsGenerator.generateMetrics assembles it
HostMetricsOf(provider, cores, load, usagePercent, bytes) ==
  [host |-> [name |-> 1, cloud |-> [provider |-> provider]],
   cpu |-> [usage |-> avgUsage(cores), perCoreUsage |-> cores, count |-> Len(cores)],
   load |-> load,
   memory |-> [usagePercent |-> usagePercent],
   network |-> [rxBytes |-> Rat(bytes, 1), txBytes |-> Rat(2 * bytes, 1)],
   diskio |-> [readBytes |-> Rat(3 * bytes, 1), writeBytes |-> Rat(bytes, 1)],
   filesystem |-> [used |-> Rat(bytes, 1), available |-> Rat(5 * bytes, 1),
                   usagePercent |-> usagePercent]]

NoHostMetrics == [host |-> [name |-> 0]]

\* number of entries of imageIds[provider] and of imageNames[provider]
ImageCount(provider) == IF provider = "azure" THEN 2 ELSE 3

\* generateImageId(provider) / generateImageName(provider):
\* providerImages[Math.floor(Math.random() * providerImages.length)], where
\* random is the index Math.random() selects
generateImageId(provider, random) == <<provider, "id", random>>
generateImageName(provider, random) == <<provider, "name", random>>

\* a normalisation that leaves the load as it is
loadNormRaw(load, count) == Divide(load, 1)

\* load / metrics.cpu.count
loadNorm(load, count) == Divide(load, count)

\* OtelFormatter.formatMetrics(hostMetrics): the values of its documents
otelFormatMetrics(metrics, randomId, randomName) ==
  [resource |-> [hostName |-> metrics.host.name,
                 imageId |-> generateImageId(metrics.host.cloud.provider, randomId),
                 imageName |-> generateImageName(metrics.host.cloud.provider, randomName)],
   cpuUtilization |->
     [i \in 1..metrics.cpu.count |->
        [state \in CpuStates |-> Divide(metrics.cpu.perCoreUsage[i][state], 100)]],
   cpuLogicalCount |-> metrics.cpu.count,
   load1m |-> metrics.load.load1m,
   load5m |-> metrics.load.load5m,
   load15m |-> metrics.load.load15m,
   memoryUtilization |-> Divide(metrics.memory.usagePercent, 100),
   networkIoReceive |-> metrics.network.rxBytes,
   networkIoTransmit |-> metrics.network.txBytes,
   diskIoRead |-> metrics.diskio.readBytes,
   diskIoWrite |-> metrics.diskio.writeBytes,
   filesystemUsed |-> metrics.filesystem.used,
   filesystemFree |-> metrics.filesystem.available,
   filesystemUtilization |-> Divide(metrics.filesystem.usagePercent, 100)]

\* system.cpu.<state>.pct = metrics.cpu.usage.<state> / 100
elasticCpuPct(metrics) ==
  [state \in {"user", "system", "idle", "iowait", "irq", "softirq", "steal", "guest"} |->
     Divide(Get(metrics.cpu.usage, state), 100)]

\* dataset.split('.'): the data_stream.dataset of each metricset, in the order
\* formatMetrics pushes the documents
ElasticDatasets ==
  << [metricset |-> "cpu", dataset |-> <<"system", "cpu">>],
     [metricset |-> "load", dataset |-> <<"system", "load">>],
     [metricset |-> "memory", dataset |-> <<"system", "memory">>],
     [metricset |-> "network", dataset |-> <<"system", "network">>],
     [metricset |-> "diskio", dataset |-> <<"system", "diskio">>],
     [metricset |-> "filesystem", dataset |-> <<"system", "filesystem">>],
     [metricset |-> "process", dataset |-> <<"system", "process", "summary">>] >>

\* the routing fields of the documents ElasticFormatter.formatMetrics returns
elasticDocuments(metrics) ==
  [k \in DOMAIN ElasticDatasets |->
     [hostname |-> metrics.host.name,
      data_stream |-> [dataset |-> ElasticDatasets[k].dataset, namespace |-> "default",
                       type |-> "metrics"],
      event |-> [dataset |-> ElasticDatasets[k].dataset,
                 module |-> ElasticDatasets[k].dataset[1]],
      metricset |-> [name |-> ElasticDatasets[k].metricset]]]

\* HostSimulator.getIndexName(document, format):
\* `metrics-${data_stream.dataset}-${data_stream.namespace}`, as its three parts
getIndexName(document, format) ==
  <<"metrics", document.data_stream.dataset, document.data_stream.namespace>>

\* ElasticFormatter.formatMetrics(hostMetrics): the values of its documents
elasticFormatMetrics(metrics) ==
  [host |-> [hostname |-> metrics.host.name],
   documents |-> elasticDocuments(metrics),
   cpu |-> elasticCpuPct(metrics),
   cores |-> metrics.cpu.count,
   load1 |-> metrics.load.load1m,
   load5 |-> metrics.load.load5m,
   load15 |-> metrics.load.load15m,
   loadNorm1 |-> loadNorm(metrics.load.load1m, metrics.cpu.count),
   loadNorm5 |-> loadNorm(metrics.load.load5m, metrics.cpu.count),
   loadNorm15 |-> loadNorm(metrics.load.load15m, metrics.cpu.count),
   memoryUsedPct |-> Divide(metrics.memory.usagePercent, 100),
   networkInBytes |-> metrics.network.rxBytes,
   networkOutBytes |-> metrics.network.txBytes,
   diskioReadBytes |-> metrics.diskio.readBytes,
   diskioWriteBytes |-> metrics.diskio.writeBytes,
   filesystemUsedBytes |-> metrics.filesystem.used,
   filesystemFree |-> metrics.filesystem.available,
   filesystemUsedPct |-> Divide(metrics.filesystem.usagePercent, 100)]

RenderInit ==
  /\ hostMetricsIn = NoHostMetrics
  /\ otelDocs = <<>>
  /\ elasticDocs = <<>>

RenderIdle == RenderInit

(* a HostMetrics reaches the formatters *)
TakeHostMetrics(provider, picks, load, usagePercent, bytes) ==
  /\ hostMetricsIn = NoHostMetrics
  /\ hostMetricsIn' =
       HostMetricsOf(provider,
                     [i \in DOMAIN picks |-> CoreUsageSamples[picks[i]]],
                     load, usagePercent, bytes)
  /\ UNCHANGED <<otelDocs, elasticDocs>>
  /\ UNCHANGED <<pipeVars, ledgerVars, genVars, cpuVars, configVars,
                 stationVars, logVars>>

(* OtelFormatter.formatMetrics(hostMetrics) *)
FormatOtel(randomId, randomName) ==
  /\ hostMetricsIn # NoHostMetrics
  /\ Len(otelDocs) < MaxRenders
  /\ randomId < ImageCount(hostMetricsIn.host.cloud.provider)
  /\ randomName < ImageCount(hostMetricsIn.host.cloud.provider)
  /\ otelDocs' = Append(otelDocs, otelFormatMetrics(hostMetricsIn, randomId, randomName))
  /\ UNCHANGED <<hostMetricsIn, elasticDocs>>
  /\ UNCHANGED <<pipeVars, ledgerVars, genVars, cpuVars, configVars,
                 stationVars, logVars>>

(* ElasticFormatter.formatMetrics(hostMetrics) *)
FormatElastic ==
  /\ hostMetricsIn # NoHostMetrics
  /\ Len(elasticDocs) < MaxRenders
  /\ elasticDocs' = Append(elasticDocs, elasticFormatMetrics(hostMetricsIn))
  /\ UNCHANGED <<hostMetricsIn, otelDocs>>
  /\ UNCHANGED <<pipeVars, ledgerVars, genVars, cpuVars, configVars,
                 stationVars, logVars>>

RenderNext ==
  \/ \E provider \in Providers, count \in CoreCounts, load \in LoadSamples,
        usagePercent \in MemorySamples, bytes \in ByteSamples :
       \E first, rest \in DOMAIN CoreUsageSamples :
         TakeHostMetrics(provider, [i \in 1..count |-> IF i = 1 THEN first ELSE rest],
                         load, usagePercent, bytes)
  \/ \E randomId, randomName \in 0..(ImageCount("aws") - 1) :
       FormatOtel(randomId, randomName)
  \/ FormatElastic

----------------------------------------------------------------------------
(* HostGenerator and WeatherStationGenerator: the configuration stores *)

MaxLookups == 3        \* generateHost / generateStation calls in one behaviour
HostNames == 1..3      \* host-01, host-02, host-03
StationIds == 1..2     \* station-01, station-02

NoConfig == [name |-> 0]

\* lengths of the provider, region, instance type and zone suffix tables
InstanceTypeCount(provider) == IF provider = 1 THEN 17 ELSE IF provider = 2 THEN 9 ELSE 7

\* Math.floor(random() * length) for the draw state / LcgModulus
FloorTimes(state, length) == (state * length) \div LcgModulus

\* the HostConfig that generateHost derives with a generator in state seed
hostConfigFrom(hostName, seed) ==
  LET provider == 1 + FloorTimes(coreRandom(seed, 1), 3)
  IN [name |-> hostName,
      provider |-> provider,
      region |-> 1 + FloorTimes(coreRandom(seed, 2), 8),
      instanceType |-> 1 + FloorTimes(coreRandom(seed, 3), InstanceTypeCount(provider)),
      availabilityZone |-> 1 + FloorTimes(coreRandom(seed, 4), 3)]

\* seededRandom(hostName): the generator starts from the hash of the name
createHostConfig(hostName) == hostConfigFrom(hostName, hashString(hostName, 0, 0))

StationModulus == 233280

\* createSeed(stationId): the first 32 bits of the MD5 of the id
createSeed(stationId) == stationId * 1000003

\* createSeededRandom: currentSeed = (currentSeed * 9301 + 49297) % 233280
stationRandom(currentSeed) ==
  (((((currentSeed % StationModulus) * 93) % StationModulus) * 100
     + (currentSeed % StationModulus) + 49297) % StationModulus)

RECURSIVE stationDraw(_, _)
stationDraw(seed, k) == IF k = 0 THEN seed ELSE stationRandom(stationDraw(seed, k - 1))

\* createStationConfig(stationId)
createStationConfig(stationId) ==
  [id |-> stationId,
   region |-> 1 + (stationDraw(createSeed(stationId), 1) * 5) \div StationModulus,
   altitude |-> (stationDraw(createSeed(stationId), 4) * 2000) \div StationModulus + 100]

ConfigInit ==
  /\ hostConfigs = [hostName \in HostNames |-> NoConfig]
  /\ stationConfigs = [stationId \in StationIds |-> NoConfig]
  /\ lookups = <<>>

ConfigIdle == ConfigInit

(* a generateHost whose random generator is shared by all hosts and goes on
   from where the previous host left it *)
GenerateHostSharedRandom(hostName) ==
  /\ Len(lookups) < MaxLookups
  /\ LET used == Cardinality({h \in HostNames : hostConfigs[h] # NoConfig})
         config == IF hostConfigs[hostName] # NoConfig
                     THEN hostConfigs[hostName]
                     ELSE hostConfigFrom(hostName, coreRandom(hashString(1, 0, 0), 4 * used))
     IN /\ hostConfigs' = [hostConfigs EXCEPT ![hostName] = config]
        /\ lookups' = Append(lookups, [kind |-> "host", id |-> hostName, config |-> config])
  /\ UNCHANGED stationConfigs
  /\ UNCHANGED <<pipeVars, ledgerVars, genVars, cpuVars, renderVars,
                 stationVars, logVars>>

(* HostGenerator.generateHost(hostName) *)
GenerateHost(hostName) ==
  /\ Len(lookups) < MaxLookups
  /\ LET config == IF hostConfigs[hostName] # NoConfig
                     THEN hostConfigs[hostName]
                     ELSE createHostConfig(hostName)
     IN /\ hostConfigs' = [hostConfigs EXCEPT ![hostName] = config]
        /\ lookups' = Append(lookups, [kind |-> "host", id |-> hostName, config |-> config])
  /\ UNCHANGED stationConfigs
  /\ UNCHANGED <<pipeVars, ledgerVars, genVars, cpuVars, renderVars,
                 stationVars, logVars>>

(* WeatherStationGenerator.generateStation(stationId) *)
GenerateStation(stationId) ==
  /\ Len(lookups) < MaxLookups
  /\ LET config == IF stationConfigs[stationId] # NoConfig
                     THEN stationConfigs[stationId]
                     ELSE createStationConfig(stationId)
     IN /\ stationConfigs' = [stationConfigs EXCEPT ![stationId] = config]
        /\ lookups' = Append(lookups, [kind |-> "station", id |-> stationId, config |-> config])
  /\ UNCHANGED hostConfigs
  /\ UNCHANGED <<pipeVars, ledgerVars, genVars, cpuVars, renderVars,
                 stationVars, logVars>>

(* a new run constructs new, empty stores *)
NewConfigStores ==
  /\ lookups # <<>>
  /\ \/ \E hostName \in HostNames : hostConfigs[hostName] # NoConfig
     \/ \E stationId \in StationIds : stationConfigs[stationId] # NoConfig
  /\ hostConfigs' = [hostName \in HostNames |-> NoConfig]
  /\ stationConfigs' = [stationId \in StationIds |-> NoConfig]
  /\ UNCHANGED lookups
  /\ UNCHANGED <<pipeVars, ledgerVars, genVars, cpuVars, renderVars,
                 stationVars, logVars>>

ConfigNext ==
  \/ \E hostName \in HostNames : GenerateHost(hostName)
  \/ \E stationId \in StationIds : GenerateStation(stationId)
  \/ NewConfigStores

----------------------------------------------------------------------------
(* WeatherMetricsGenerator: the fields of a weather station that the index
   template declares as time-series counters.  A tick is a day in spring, at
   an air temperature of at most 25 degrees; the draws of its random generator
   are taken equal, as a percentage r. *)

MaxWeatherTicks == 3   \* generateMetrics calls in one behaviour
WeatherHours == {8, 12, 20}
Conditions == {"sunny", "rain"}
Draws == {0, 50}

\* station.solarPanels: wattage, each panel at efficiency 0.20
solarPanels(stationId) ==
  IF stationId = 1 THEN <<[wattage |-> 100]>>
                   ELSE <<[wattage |-> 100], [wattage |-> 200]>>

\* getCloudCover(condition, rng), in percent
getCloudCover(condition, r) ==
  Min(100, (IF condition = "sunny" THEN 10 ELSE 80) + (r - 50) \div 5)

\* getPrecipitationRate(condition, rng), in tenths of a mm/h
getPrecipitationRate(condition, r) ==
  Max(0, IF condition = "sunny" THEN 0 ELSE 20 + (r * 80) \div 100)

\* getSolarRadiation(hour, cloudCover, season, rng) with maxRadiation = 800,
\* in W/m2; the sine is taken at 8h, 12h and 16h
getSolarRadiation(hour, cloudCover, r) ==
  IF hour < 6 \/ hour > 18 THEN 0
  ELSE LET hourlyFactor2 == IF hour = 12 THEN 2 ELSE IF hour \in {8, 16} THEN 1 ELSE 0
       IN Max(0, 4 * hourlyFactor2 * (100 - cloudCover) + (r - 50) \div 2)

\* generateSolarMetrics: actualPower of one panel, in units of 4e-8 W
actualPower(panelConfig, irradiance, cloudCover, r) ==
  Max(0, (panelConfig.wattage \div 100) * (5050 - r) * irradiance * (100 - cloudCover))

\* generateSolarMetrics: totalDailyEnergy, the sum over the panels of
\* actualPower * 0.0167
RECURSIVE totalDailyEnergy(_, _, _, _)
totalDailyEnergy(panels, irradiance, cloudCover, r) ==
  IF panels = <<>> THEN 0
  ELSE actualPower(Head(panels), irradiance, cloudCover, r)
         + totalDailyEnergy(Tail(panels), irradiance, cloudCover, r)

\* generateNetworkMetrics: rxBytesInc = baseTraffic * (0.8 + rng() * 0.4)
rxBytesInc(r) == ((100 + 2 * r) * (80 + (40 * r) \div 100)) \div 100

\* getAccumulatedPrecipitation: currentRate * 0.0167 is added to the counter,
\* here in units of 0.00167 mm; the sum stays far below MAX_SAFE_INTEGER
getAccumulatedPrecipitation(current, currentRate) == current + currentRate

\* the entries of a station's WeatherCounterState after generateMetrics
stationCountersAfter(counters, condition, r) ==
  [rx_bytes |-> weatherIncrementCounter(counters.rx_bytes, Whole(rxBytesInc(r))),
   rx_packets |-> weatherIncrementCounter(counters.rx_packets,
                                          Whole(rxBytesInc(r) \div 1000)),
   rx_errors |-> weatherIncrementCounter(counters.rx_errors,
                                         Whole(IF r < 1 THEN 1 ELSE 0)),
   precipitation_accumulated |->
     getAccumulatedPrecipitation(counters.precipitation_accumulated,
                                 getPrecipitationRate(condition, r))]

\* the keys of the ledger that were reset to 0 by this generateMetrics
countersReset(counters, r) ==
  {key \in {"rx_bytes", "rx_packets", "rx_errors"} :
     Overflows(counters[key],
               Whole(CASE key = "rx_bytes" -> rxBytesInc(r)
                       [] key = "rx_packets" -> rxBytesInc(r) \div 1000
                       [] OTHER -> IF r < 1 THEN 1 ELSE 0))}

\* FieldSenseFormatter.formatMetrics: the counter fields of the documents of
\* one tick (network traffic in the rx direction)
fieldsenseCounters(counters, dailyEnergy) ==
  [bytes |-> counters.rx_bytes,
   packets |-> counters.rx_packets,
   errors |-> counters.rx_errors,
   precipitation_accumulated |-> counters.precipitation_accumulated,
   daily_energy |-> dailyEnergy]

NoDocument == [none |-> TRUE]

\* values the rx_bytes entry holds before the first tick followed
StationSeeds == {Whole(0), MaxSafeMinus(100)}

NewStationCounters(seed) ==
  [rx_bytes |-> seed, rx_packets |-> Whole(0), rx_errors |-> Whole(0),
   precipitation_accumulated |-> 0]

StationInit ==
  /\ weather \in {[counters |-> [s \in StationIds |-> NewStationCounters(seed)],
                   latest |-> [s \in StationIds |-> NoDocument],
                   reset |-> {}, ticks |-> 0] : seed \in StationSeeds}

StationIdle ==
  weather = [counters |-> [s \in StationIds |-> NewStationCounters(Whole(0))],
             latest |-> [s \in StationIds |-> NoDocument],
             reset |-> {}, ticks |-> 0]

(* WeatherMetricsGenerator.generateMetrics(station, timestamp) followed by
   FieldSenseFormatter.formatMetrics *)
GenerateWeatherMetrics(stationId, hour, condition, r) ==
  /\ weather.ticks < MaxWeatherTicks
  /\ LET cloudCover == getCloudCover(condition, r)
         irradiance == getSolarRadiation(hour, cloudCover, r)
         counters == stationCountersAfter(weather.counters[stationId], condition, r)
     IN weather' =
          [weather EXCEPT
             !.counters[stationId] = counters,
             !.latest[stationId] =
                fieldsenseCounters(counters,
                                   totalDailyEnergy(solarPanels(stationId), irradiance,
                                                    cloudCover, r)),
             !.reset = countersReset(weather.counters[stationId], r),
             !.ticks = @ + 1]
  /\ UNCHANGED <<pipeVars, ledgerVars, genVars, cpuVars, renderVars, configVars, logVars>>

StationNext ==
  \E stationId \in StationIds, hour \in WeatherHours, condition \in Conditions, r \in Draws :
    GenerateWeatherMetrics(stationId, hour, condition, r)

----------------------------------------------------------------------------
(* SimianLogger: captured log entries, the periodic flush and its bulk
   requests.  An entry is named by its rank of capture. *)

MaxLogs == 4           \* log entries captured in one behaviour

\* new SimianLogger(); delivered holds the bodies of the bulk requests that
\* succeeded
NewLogger ==
  [elasticsearchClient |-> FALSE, logBuffer |-> <<>>, inFlight |-> {},
   delivered |-> <<>>, captured |-> 0]

LoggerInit == logger = NewLogger

LoggerIdle == LoggerInit

(* initializeElasticsearch(url, auth) *)
InitializeElasticsearch ==
  /\ ~logger.elasticsearchClient
  /\ logger' = [logger EXCEPT !.elasticsearchClient = TRUE]
  /\ UNCHANGED <<pipeVars, ledgerVars, genVars, cpuVars, renderVars, configVars,
                 stationVars>>

(* captureLog(level, message), from an intercepted console method *)
CaptureLog ==
  /\ logger.captured < MaxLogs
  /\ logger' = [logger EXCEPT !.captured = @ + 1,
                              !.logBuffer = Append(@, logger.captured + 1)]
  /\ UNCHANGED <<pipeVars, ledgerVars, genVars, cpuVars, renderVars, configVars,
                 stationVars>>

(* a flushLogs that leaves the entries it sends in the buffer *)
FlushLogsKeepsBuffer ==
  /\ logger.elasticsearchClient /\ logger.logBuffer # <<>>
  /\ logger.logBuffer \notin logger.inFlight
  /\ logger' = [logger EXCEPT !.inFlight = @ \cup {logger.logBuffer}]
  /\ UNCHANGED <<pipeVars, ledgerVars, genVars, cpuVars, renderVars, configVars,
                 stationVars>>

(* flushLogs up to await elasticsearchClient.bulk: from the interval timer
   or from shutdown *)
FlushLogs ==
  /\ logger.elasticsearchClient /\ logger.logBuffer # <<>>
  /\ logger' = [logger EXCEPT !.logBuffer = <<>>,
                              !.inFlight = @ \cup {logger.logBuffer}]
  /\ UNCHANGED <<pipeVars, ledgerVars, genVars, cpuVars, renderVars, configVars,
                 stationVars>>

(* the bulk request of a flush resolves *)
BulkResolves(logs) ==
  /\ logs \in logger.inFlight
  /\ logger' = [logger EXCEPT !.inFlight = @ \ {logs},
                              !.delivered = @ \o logs]
  /\ UNCHANGED <<pipeVars, ledgerVars, genVars, cpuVars, renderVars, configVars,
                 stationVars>>

(* the bulk request of a flush rejects: catch, this.logBuffer.unshift(...logs) *)
BulkRejects(logs) ==
  /\ logs \in logger.inFlight
  /\ logger' = [logger EXCEPT !.inFlight = @ \ {logs},
                              !.logBuffer = logs \o @]
  /\ UNCHANGED <<pipeVars, ledgerVars, genVars, cpuVars, renderVars, configVars,
                 stationVars>>

LoggerNext ==
  \/ InitializeElasticsearch
  \/ CaptureLog
  \/ FlushLogs
  \/ \E logs \in logger.inFlight : BulkResolves(logs)
  \/ \E logs \in logger.inFlight : BulkRejects(logs)

AuxIdle == CpuIdle /\ RenderIdle /\ ConfigIdle /\ StationIdle /\ LoggerIdle

----------------------------------------------------------------------------
(* Specifications *)

Init == PipeInit /\ LedgerIdle /\ GenInit /\ AuxIdle
Next == PipeNext
Spec == Init /\ [][Next]_vars

InitLedger == PipeIdle /\ LedgerInit /\ GenInit /\ AuxIdle
SpecLedger == InitLedger /\ [][LedgerNext]_vars

InitGen == PipeIdle /\ LedgerIdle /\ GenInit /\ AuxIdle

InitCpu ==
  PipeIdle /\ LedgerIdle /\ GenInit /\ CpuInit /\ RenderIdle /\ ConfigIdle
    /\ StationIdle /\ LoggerIdle
SpecCpu == InitCpu /\ [][CpuNext]_vars

InitRender ==
  PipeIdle /\ LedgerIdle /\ GenInit /\ CpuIdle /\ RenderInit /\ ConfigIdle
    /\ StationIdle /\ LoggerIdle
SpecRender == InitRender /\ [][RenderNext]_vars

InitCli == CliInit /\ LedgerIdle /\ GenInit /\ AuxIdle
SpecCli == InitCli /\ [][CliNext]_vars

InitProducer == ProducerInit /\ LedgerIdle /\ GenInit /\ AuxIdle
SpecBackfill == InitProducer /\ [][ProducerNext]_vars

InitStream == StreamInit /\ LedgerIdle /\ GenInit /\ AuxIdle
SpecRealTime == InitStream /\ [][StreamNext]_vars

InitStation ==
  PipeIdle /\ LedgerIdle /\ GenInit /\ CpuIdle /\ RenderIdle /\ ConfigIdle
    /\ StationInit /\ LoggerIdle
SpecWeather == InitStation /\ [][StationNext]_vars

InitLogger ==
  PipeIdle /\ LedgerIdle /\ GenInit /\ CpuIdle /\ RenderIdle /\ ConfigIdle
    /\ StationIdle /\ LoggerInit
SpecLogger == InitLogger /\ [][LoggerNext]_vars

InitConfig ==
  PipeIdle /\ LedgerIdle /\ GenInit /\ CpuIdle /\ RenderIdle /\ ConfigInit
    /\ StationIdle /\ LoggerIdle
SpecConfig == InitConfig /\ [][ConfigNext]_vars
SpecGen == InitGen /\ [][GenNext]_vars

----------------------------------------------------------------------------
(* Properties *)

\* the backfill ticks emitted so far for one entity, in emission order
TicksOf(entityId) == SelectSeq(hist.bfEmitted, LAMBDA item : item.entityId = entityId)

StrictlyIncreasing(items) ==
  \A i \in 1..(Len(items) - 1) : items[i].timestamp < items[i + 1].timestamp

\* C1: with backfill start T0, phase start Tend, interval I > 0 and at least
\* one entity, the Backfill Producer never emits more than ceil((Tend - T0) / I)
\* ticks per entity, their timestamps are strictly increasing and all < Tend,
\* and when it ends its stream it has emitted exactly that many per entity.
BackfillBoundedness ==
  (backfill.created /\ intervalMs > 0 /\ options.count >= 1) =>
    LET expected == CeilDiv(backfill.endTime - backfillStart, intervalMs)
    IN \A e \in 1..options.count :
         /\ Len(TicksOf(e)) <= expected
         /\ backfill.ended => Len(TicksOf(e)) = expected
         /\ StrictlyIncreasing(TicksOf(e))
         /\ \A i \in 1..Len(TicksOf(e)) : TicksOf(e)[i].timestamp < backfill.endTime

\* C1 witness: a 25 s backfill of two entities at a 10 s interval has ended
\* after three ticks per entity (25 / 10 is not whole)
BackfillBoundednessWitness ==
  /\ backfill.ended
  /\ options.backfill.seconds = 25 /\ options.interval.value = 10
  /\ options.count = 2
  /\ Len(TicksOf(1)) = 3 /\ Len(TicksOf(2)) = 3

\* C2: once stop() has been called, the realtime timer is cancelled and the
\* Realtime Producer emits no further tick, whatever reads follow.
NoTickAfterStop ==
  [][hist.stopRequested =>
       (hist.rtEmitted' = hist.rtEmitted /\ ~realtime'.intervalId)]_vars

\* C3: a tick whose generation throws is skipped: the transform stream is not
\* errored by it and start() does not fail.
GenerationErrorSkipped ==
  hist.thrown > 0 => (~transform.errored /\ pc # "failed")

\* C4: the ticks buffered inside a producer stay within the stream's buffer
\* limit (a read is requested below the high-water mark and adds at most one
\* sweep), however slow the sink is.
ProducerBufferBounded ==
  /\ Len(backfill.buffer) <= HighWaterMark
  /\ Len(realtime.buffer) < HighWaterMark + options.count

\* C5: a host counter never decreases from one tick to the next except at a
\* step whose sum exceeds MAX_SAFE_INTEGER, where the new value is that
\* step's increment.
HostCounterMonotonic ==
  hostLedger.steps > 0 =>
    IF hostLedger.overflowed
      THEN hostLedger.value = hostLedger.increment
      ELSE ~NumLess(hostLedger.value, hostLedger.previous)

\* C6: when currentValue + delta exceeds MAX_SAFE_INTEGER the host counter
\* becomes delta; MAX_SAFE_INTEGER - 5 plus 20 becomes 20, not 0 and not 15.
HostOverflowResetsToIncrement ==
  hostLedger.steps > 0 =>
    /\ NumLess(MAX_SAFE_INTEGER, NumAdd(hostLedger.previous, hostLedger.increment))
         => hostLedger.value = hostLedger.increment
    /\ (hostLedger.previous = MaxSafeMinus(5) /\ hostLedger.increment = Whole(20))
         => hostLedger.value = Whole(20)

\* C6 witness: the counter stood at MAX_SAFE_INTEGER - 5, received 20, holds 20
HostOverflowWitness ==
  /\ hostLedger.steps > 0
  /\ hostLedger.previous = MaxSafeMinus(5)
  /\ hostLedger.increment = Whole(20)
  /\ hostLedger.value = Whole(20)

\* C7: a weather-station counter whose incremented value exceeds
\* MAX_SAFE_INTEGER resets to the current increment, never to zero.
WeatherOverflowResetsToIncrement ==
  (weatherLedger.steps > 0 /\ weatherLedger.overflowed) =>
    /\ weatherLedger.value = weatherLedger.increment
    /\ weatherLedger.value # Whole(0)

\* C8: two calls of generateMetrics with the same host and timestamp, in one
\* generator or in a fresh one, return identical snapshots, counters included.
GenerationDeterministic ==
  \A s1, s2 \in snapshots :
    (s1.host = s2.host /\ s1.timestamp = s2.timestamp) => s1 = s2

\* time between the resolution of the backfill start (construction) and the
\* creation of the Backfill Producer
StartupDelay == backfill.endTime - (backfillStart + options.backfill.seconds * 1000)

\* C9 as stated: with interval 10s, backfill now-30s and 1 entity the run emits
\* exactly 3 backfill ticks, 10 s apart, and only then the first realtime tick.
ScenarioAExactlyThree ==
  options = ScenarioA =>
    /\ Len(hist.bfEmitted) <= 3
    /\ \A i \in 1..Len(hist.bfEmitted) :
         hist.bfEmitted[i].timestamp = backfillStart + (i - 1) * 10000
    /\ hist.rtEmitted > 0 => (backfill.ended /\ Len(hist.bfEmitted) = 3)

\* C9 amended: with interval 10s, backfill now-30s and 1 entity the run emits
\* ceil((30 s + d) / 10 s) backfill ticks, d being the time from construction
\* to the creation of the Backfill Producer (3 ticks when d = 0), 10 s apart,
\* and only then the first realtime tick.
ScenarioATicks ==
  (options = ScenarioA /\ backfill.created) =>
    LET expected == CeilDiv(30000 + StartupDelay, 10000)
    IN /\ Len(hist.bfEmitted) <= expected
       /\ StartupDelay = 0 => expected = 3
       /\ \A i \in 1..Len(hist.bfEmitted) :
            hist.bfEmitted[i].timestamp = backfillStart + (i - 1) * 10000
       /\ hist.rtEmitted > 0 =>
            (backfill.ended /\ Len(hist.bfEmitted) = expected)

\* C9 witness: Scenario A with no startup delay: three backfill ticks, then
\* the first realtime tick
ScenarioAWitness ==
  /\ options = ScenarioA
  /\ StartupDelay = 0
  /\ Len(hist.bfEmitted) = 3
  /\ hist.rtEmitted > 0

\* C10: the Realtime Producer is not created and no realtime tick is generated
\* until the backfill stream has ended and the sink has finished submitting
\* every backfill document.
PhasesInOrder ==
  (realtime.created \/ hist.rtEmitted > 0 \/ pc = "realtime") =>
    /\ backfill.ended /\ backfill.buffer = <<>>
    /\ hist.bfDocs = Len(hist.bfEmitted)
    /\ hist.bfCompleted = hist.bfDocs

\* C10 witness: realtime ticks flow after a backfill of at least four documents
PhasesInOrderWitness ==
  /\ realtime.created
  /\ hist.rtEmitted > 0
  /\ hist.bfCompleted >= 4

\* some callback of the program is ready to run (stop() and the passing of
\* time are the environment's)
ProgramStep ==
  \/ Start
  \/ RunBackfillStream
  \/ BackfillRead
  \/ \E throws \in BOOLEAN : Transform(throws)
  \/ SinkTake
  \/ SinkFlush
  \/ \E i \in 1..Concurrency : SinkBatchDone(i)
  \/ RunRealTimeStream
  \/ RealTimeRead
  \/ TimerFire
  \/ StartRejects

\* C11: after a stop signal the run reaches Stopped: once the timer is
\* cancelled, nothing is left buffered or in flight and no callback is ready
\* to run, start() has returned.
StopReachesStopped ==
  ( /\ hist.stopRequested
    /\ hist.thrown = 0
    /\ realtime.created /\ ~realtime.intervalId
    /\ sink.buffered = 0
    /\ ~ENABLED ProgramStep ) => pc = "returned"

\* C12: on entry to the realtime phase the first sweep is ready at once (the
\* stream's first _read is enabled whatever the clock says), and the first
\* sweep is one tick per entity stamped with the current time, produced by
\* the call that arms the timer and never by the timer itself.
FirstSweepImmediate ==
  /\ [](pc = "realtime" /\ hist.rtEmitted = 0 => ENABLED RealTimeRead)
  /\ [][hist.rtEmitted = 0 /\ hist'.rtEmitted > 0 =>
          /\ ~realtime.intervalId
          /\ realtime'.intervalId
          /\ realtime'.nextFire = now + intervalMs
          /\ hist'.rtEmitted = options.count
          /\ realtime'.buffer =
               [i \in 1..options.count |-> Item(generateEntityIds(options.count)[i], now)]]_vars

FirstSweepWitness ==
  /\ pc = "realtime"
  /\ options.count = MaxCount
  /\ hist.rtEmitted = options.count
  /\ realtime.intervalId
  /\ realtime.nextFire = now + intervalMs

\* C13: in every host snapshot the eight state percentages of every core
\* (user, nice, system, idle, wait, interrupt, softirq, steal) sum to exactly
\* 100%.
CoreStatesSumTo100 ==
  \A i \in 1..Len(perCoreUsage) :
    LET c == perCoreUsage[i]
    IN c.user + c.nice + c.system + c.idle + c.wait + c.interrupt + c.softirq + c.steal
         = OneHundredPercent

\* the OTel utilizations of one CPU state, averaged over the cores
OtelCpuAverage(doc, state) ==
  Divide(SumOver(doc.cpuUtilization, state, Len(doc.cpuUtilization)),
         Len(doc.cpuUtilization))

\* the Elastic name of an OTel CPU state
ElasticCpuState(state) ==
  IF state = "wait" THEN "iowait" ELSE IF state = "interrupt" THEN "irq" ELSE state

\* C14: for one host snapshot, every measurement both renderers emit (the
\* utilization of each CPU state, memory utilization, load averages, network
\* and disk counters, filesystem usage) has equal values in the OTel and the
\* Elastic documents, the OTel per-core utilizations being averaged over the
\* cores.
RenderersAgree ==
  \A i \in DOMAIN otelDocs, j \in DOMAIN elasticDocs :
    LET otel == otelDocs[i]
        elastic == elasticDocs[j]
    IN /\ \A state \in CpuStates \ {"nice"} :
            OtelCpuAverage(otel, state) = elastic.cpu[ElasticCpuState(state)]
       /\ otel.memoryUtilization = elastic.memoryUsedPct
       /\ otel.load1m = elastic.load1
       /\ otel.load5m = elastic.load5
       /\ otel.load15m = elastic.load15
       /\ otel.networkIoReceive = elastic.networkInBytes
       /\ otel.networkIoTransmit = elastic.networkOutBytes
       /\ otel.diskIoRead = elastic.diskioReadBytes
       /\ otel.diskIoWrite = elastic.diskioWriteBytes
       /\ otel.filesystemUsed = elastic.filesystemUsedBytes
       /\ otel.filesystemFree = elastic.filesystemFree
       /\ otel.filesystemUtilization = elastic.filesystemUsedPct

\* Scenario C: a snapshot with a 1-minute load of 1.25 on a 4-core host
ScenarioC ==
  /\ hostMetricsIn # NoHostMetrics
  /\ hostMetricsIn.load.load1m = Rat(5, 4)
  /\ hostMetricsIn.cpu.count = 4

\* C15 as stated: in Scenario C both renderers report the raw value 1.25 and
\* the normalized value 0.3125.
ScenarioCBothNormalized ==
  ScenarioC =>
    /\ \A i \in DOMAIN otelDocs :
         /\ otelDocs[i].load1m = Rat(5, 4)
         /\ Get(otelDocs[i], "loadNorm1") = Rat(5, 16)
    /\ \A j \in DOMAIN elasticDocs :
         /\ elasticDocs[j].load1 = Rat(5, 4)
         /\ Get(elasticDocs[j], "loadNorm1") = Rat(5, 16)

\* C15: in Scenario C both renderers report the raw value 1.25; the Elastic
\* renderer also reports the normalized value 0.3125 (1.25 / 4 cores), and
\* the OTel renderer reports no normalized load.
ScenarioCLoad ==
  ScenarioC =>
    /\ \A i \in DOMAIN otelDocs :
         /\ otelDocs[i].load1m = Rat(5, 4)
         /\ Get(otelDocs[i], "loadNorm1") = Undefined
    /\ \A j \in DOMAIN elasticDocs :
         /\ elasticDocs[j].load1 = Rat(5, 4)
         /\ elasticDocs[j].loadNorm1 = Rat(5, 16)
         /\ elasticDocs[j].cores = 4

ScenarioCWitness ==
  /\ ScenarioC
  /\ Len(otelDocs) > 0
  /\ Len(elasticDocs) > 0
  /\ elasticDocs[1].loadNorm1 = Rat(5, 16)

\* C16: each renderer is a pure function of the snapshot: rendering the same
\* snapshot twice yields identical documents.
RenderingPure ==
  /\ \A i, j \in DOMAIN otelDocs : otelDocs[i] = otelDocs[j]
  /\ \A i, j \in DOMAIN elasticDocs : elasticDocs[i] = elasticDocs[j]

\* C17: a snapshot is immutable once returned: whatever later ticks do, every
\* value read through an earlier snapshot, cumulative counters included, is
\* the value it had when the snapshot was returned.
SnapshotImmutable == \A metrics \in held : Observed(metrics) = metrics

\* C19: generating a tick for one entity leaves the counters and the
\* previous-tick record of every other entity unchanged.
TickLeavesOthersUnchanged ==
  [][genCalls' = genCalls + 1 =>
       \E host \in Hosts :
         /\ generator'.previousTimestamp[host] # NoTimestamp
         /\ \A other \in Hosts \ {host} :
              /\ generator'.counters[other] = generator.counters[other]
              /\ generator'.previousTimestamp[other] = generator.previousTimestamp[other]]_vars

TickLeavesOthersWitness ==
  /\ \A host \in Hosts : generator.previousTimestamp[host] # NoTimestamp
  /\ \A host \in Hosts : generator.counters[host].cpu_time_0_user # Whole(0)
  /\ generator.previousTimestamp[1] # generator.previousTimestamp[2]
  /\ genCalls = MaxGenCalls

\* C18: for a fixed entity id every lookup of the configuration store returns
\* what a fresh store would derive for that id, however many lookups were made
\* before it, in whatever order, and whichever store instance served it.
ConfigLookupsStable ==
  /\ \A i \in DOMAIN lookups :
       lookups[i].config = IF lookups[i].kind = "host"
                             THEN createHostConfig(lookups[i].id)
                             ELSE createStationConfig(lookups[i].id)
  /\ \A hostName \in HostNames :
       hostConfigs[hostName] \in {NoConfig, createHostConfig(hostName)}
  /\ \A stationId \in StationIds :
       stationConfigs[stationId] \in {NoConfig, createStationConfig(stationId)}

ConfigLookupsWitness ==
  /\ Len(lookups) = MaxLookups
  /\ \E i, j \in DOMAIN lookups :
       /\ i < j
       /\ lookups[i].kind = "host" /\ lookups[j].kind = "host"
       /\ lookups[i].id = lookups[j].id
       /\ \E k \in DOMAIN lookups :
            /\ i < k /\ k < j
            /\ lookups[k].kind = "host"
            /\ lookups[k].id # lookups[i].id
            /\ lookups[k].config # lookups[i].config

\* the well-formed command line, without and with --purge
WellFormedLines == {[WellFormed EXCEPT !.purge = purge] : purge \in BOOLEAN}

\* C20: a malformed interval string, an unparsable backfill string or an
\* unknown dataset aborts the run with an error before any tick is produced:
\* main() is ready to run, it ends in the aborted state, and no producer is
\* ever created and no tick emitted.
MalformedAborts ==
  /\ pc = "cli" => ENABLED Main
  /\ options \in CommandLines \ WellFormedLines =>
       /\ pc \in {"cli", "aborted"}
       /\ ~backfill.created /\ ~realtime.created
       /\ hist.bfEmitted = <<>> /\ hist.rtEmitted = 0 /\ hist.processed = 0
       /\ ~isRunning

MalformedAbortsWitness ==
  /\ pc = "aborted"
  /\ ~intervalMatches(options.interval)
  /\ advances = MaxClockAdvances

\* C21: every document of the Elastic renderer is routed to the data stream
\* metrics-system.{metricset}-default, {metricset} being the document's own
\* metricset name, and the index name is a function of the document's fields.
ElasticRouting ==
  \A j \in DOMAIN elasticDocs :
    \A k \in DOMAIN elasticDocs[j].documents :
      LET document == elasticDocs[j].documents[k]
      IN getIndexName(document, "elastic")
           = <<"metrics", <<"system", document.metricset.name>>, "default">>

\* C22: for every accepted interval string and every backfill start the
\* Backfill Producer ends its stream after finitely many ticks: each completed
\* sweep of the entities moves the virtual time strictly towards the end time.
BackfillSweepAdvances ==
  [][(backfill.created /\ backfill'.totalItems > backfill.totalItems
        /\ backfill'.entityIndex = 0)
       => backfill'.currentTime > backfill.currentTime]_vars

\* the ticks of the Backfill Producer in entity-major, oldest-first order:
\* the n-th tick is of entity ((n - 1) mod count) + 1 at start + ((n - 1) div count) * interval
EntityMajor(items) ==
  \A n \in DOMAIN items :
    items[n] = Item(generateEntityIds(options.count)[((n - 1) % options.count) + 1],
                    backfillStart + ((n - 1) \div options.count) * intervalMs)

\* C26: the Backfill Producer emits oldest first and entity-major: for each
\* virtual time T exactly one tick per entity, in entity-list order, before any
\* tick with time T + interval.
BackfillEntityMajor ==
  backfill.created => EntityMajor(hist.bfEmitted)

BackfillEntityMajorWitness ==
  /\ backfill.created /\ backfill.ended
  /\ options.count = MaxCount /\ MaxCount > 1
  /\ intervalMs > 0
  /\ Len(hist.bfEmitted) >= 2 * options.count

\* a rate per second times a number of seconds, for small values
rateTimesSeconds(rate, seconds) == Half((rate.hi * LimbBase + rate.lo) * seconds)

\* the counters of a host after a tick when each delta is the instantaneous
\* rate multiplied by the seconds elapsed since the host's previous tick
ratedCounters(g, host, timestamp) ==
  [cpu_time_0_user |->
     incrementCounter(g.counters[host].cpu_time_0_user,
                      incrementSeconds(cpuUserPercent(host, timestamp),
                                       intervalSeconds(g, host, timestamp))),
   diskio_read_bytes |->
     incrementCounter(g.counters[host].diskio_read_bytes,
                      rateTimesSeconds(readBytesPerSec(host, timestamp),
                                       intervalSeconds(g, host, timestamp)))]

\* C23: for every counter-backed quantity of a host the delta fed to the
\* ledger at a tick is the instantaneous rate multiplied by the seconds elapsed
\* since the host's previous tick (a fixed default at the first tick).
DeltaIsRateTimesElapsed ==
  [][genCalls' = genCalls + 1
       => \E host \in Hosts, timestamp \in GenTimestamps :
            generator' = [generator EXCEPT
                            !.counters[host] = ratedCounters(generator, host, timestamp),
                            !.previousTimestamp[host] = timestamp]]_vars

\* C24: on every increment of a host counter that does not overflow, the value
\* stored is exactly the previous value plus the delta.
IncrementIsExactSum ==
  (hostLedger.steps > 0 /\ ~hostLedger.overflowed)
    => hostLedger.value = NumAdd(hostLedger.previous, hostLedger.increment)

\* the timestamp of the latest batch of the Realtime Producer: every batch
\* sets nextFire to its own time plus the interval
lastRealTimeBatch == realtime.nextFire - intervalMs

\* C25: over a whole run (backfill, then realtime) the ticks of an entity reach
\* the generator with strictly increasing timestamps: the streams hand them on
\* in emission order, one at a time, so every batch of the Realtime Producer
\* is stamped later than every tick emitted before it.
RunTimestampsIncrease ==
  [][hist'.rtEmitted > hist.rtEmitted
       => /\ \A i \in DOMAIN hist.bfEmitted : hist.bfEmitted[i].timestamp < now
          /\ hist.rtEmitted > 0 => lastRealTimeBatch < now]_vars

\* C27: at every point of any sequence of read requests, stop calls and
\* destroy calls on the Realtime Producer, at most one interval timer is
\* scheduled.
AtMostOneTimer == realtime.timers <= 1

\* a timer is scheduled again after a stop()
AtMostOneTimerWitness ==
  /\ hist.stopRequested
  /\ realtime.timers = 1
  /\ hist.rtEmitted >= 2 * options.count

\* a <= b for two counter values
NumLessEq(a, b) == ~NumLess(b, a)

\* C28: every weather-station field declared a time-series counter (network
\* bytes, packets and errors, accumulated precipitation, daily solar energy)
\* is non-decreasing across successive ticks of the same station, except when
\* its ledger entry is reset on overflow.
StationCountersMonotone ==
  [][\A s \in StationIds :
       LET old == weather.latest[s]
           new == weather'.latest[s]
       IN (old # NoDocument /\ weather'.ticks > weather.ticks /\ new # old)
            => /\ "rx_bytes" \in weather'.reset \/ NumLessEq(old.bytes, new.bytes)
               /\ "rx_packets" \in weather'.reset \/ NumLessEq(old.packets, new.packets)
               /\ "rx_errors" \in weather'.reset \/ NumLessEq(old.errors, new.errors)
               /\ old.precipitation_accumulated <= new.precipitation_accumulated
               /\ old.daily_energy <= new.daily_energy]_vars

\* how many times an entry occurs in a sequence of entries
Occurrences(entry, logs) == Cardinality({i \in DOMAIN logs : logs[i] = entry})

\* the bulk requests in flight that carry an entry
Carrying(entry) == {logs \in logger.inFlight : Occurrences(entry, logs) > 0}

\* C30: under any interleaving of log captures and flushes, overlapping
\* flushes and failing bulk requests included, every captured entry is in
\* exactly one place: delivered by one successful bulk request, in the log
\* buffer, or in the one request in flight that carries it; once no request is
\* in flight it is delivered exactly once or still in the buffer.
LogsConserved ==
  \A entry \in 1..logger.captured :
    /\ Occurrences(entry, logger.delivered) + Occurrences(entry, logger.logBuffer)
         + Cardinality(Carrying(entry)) = 1
    /\ \A logs \in Carrying(entry) : Occurrences(entry, logs) = 1

\* all entries were captured, two flushes overlapped or one failed, and every
\* entry has been delivered
LogsConservedWitness ==
  /\ logger.captured = MaxLogs
  /\ logger.inFlight = {}
  /\ logger.logBuffer = <<>>
  /\ Len(logger.delivered) = MaxLogs
  /\ logger.delivered # [i \in 1..MaxLogs |-> i]

\* C29: with --purge, data streams are deleted only after the whole run
\* configuration (dataset, format, count, interval, backfill) is validated: a
\* run that aborts with a startup validation error has deleted no data stream.
PurgeAfterValidation == pc = "aborted" => ~hist.purged

====
